---- MODULE Spec2Model ----
(***************************************************************************)
(* GITSIGHT backend: the /ingest, /query and /repository handlers of       *)
(* app/api/routes.py with IngestPipeline (app/pipeline/ingest.py) and      *)
(* QueryPipeline (app/pipeline/query.py), over the shared 'documents'      *)
(* table of the store.                                                     *)
(*                                                                         *)
(* Strings that the code inspects (file paths, filenames) are sequences of *)
(* one-character strings.  A stored file_path is kept as the pair          *)
(* (path id, chunk index) and rendered to its characters by FilePathStr.   *)
(***************************************************************************)
EXTENDS Integers, Sequences, FiniteSets, TLC

\* ------------------------------------------------------------------ bounds

\* ingestion runs, beyond the first of each repository, whose rows the store
\* may hold at a time (a second run of a repository gets past the existence
\* check only by a store error or a race)
MaxRepeats == 1

\* chunks of the file that has more chunks than the query keeps
ManyChunks == 12

\* chunks of the file that does not fit one insert batch
HugeChunks == 50

\* file paths of the repository that has more paths than the listing's
\* metadata keeps
ManyPaths == 101

\* ------------------------------------------------------- program constants

\* ingest.py:247  batch_size = 50
batch_size == 50

\* query.py:195  top_k=10
top_k == 10

\* query.py:195  threshold=0.15, in hundredths
threshold == 15

\* query.py:200  limit=5
fallback_limit == 5

\* query.py:215  documents[:10]
top_docs_cap == 10

\* query.py:118  similarity 1.0 of a file match, in hundredths
SimFile == 100

\* query.py:142  similarity 0.5 of a fallback document, in hundredths
SimFallback == 50

\* ingest.py:175  all_file_paths[:100]
file_paths_cap == 100

\* ----------------------------------------------------------------- strings

\* the characters the model uses, in code point order
Alphabet ==
  << "#", ".", "0", "1", "2", "3", "4", "5", "6", "7", "8", "9",
     "A", "B", "C", "D", "E", "F", "G", "H", "I", "J", "K", "L", "M",
     "N", "O", "P", "Q", "R", "S", "T", "U", "V", "W", "X", "Y", "Z", "_",
     "a", "b", "c", "d", "e", "f", "g", "h", "i", "j", "k", "l", "m",
     "n", "o", "p", "q", "r", "s", "t", "u", "v", "w", "x", "y", "z" >>

Chars == {Alphabet[k] : k \in 1..Len(Alphabet)}

OrdOf == [c \in Chars |-> CHOOSE k \in 1..Len(Alphabet) : Alphabet[k] = c]

Ord(c) == OrdOf[c]

LowerOf ==
  [c \in Chars |->
     IF OrdOf[c] >= OrdOf["A"] /\ OrdOf[c] <= OrdOf["Z"]
     THEN Alphabet[OrdOf[c] + 27] ELSE c]

\* str.lower() on one character
LowerChar(c) == LowerOf[c]

Lower(s) == [k \in 1..Len(s) |-> LowerChar(s[k])]

\* s < t as Python compares str: by code point, a proper prefix first
RECURSIVE StrLess(_, _)
StrLess(s, t) ==
  IF t = << >> THEN FALSE
  ELSE IF s = << >> THEN TRUE
  ELSE IF s[1] # t[1] THEN Ord(s[1]) < Ord(t[1])
  ELSE StrLess(Tail(s), Tail(t))

\* s contains t as a substring
Contains(s, t) ==
  \E k \in 0..(Len(s) - Len(t)) : \A j \in 1..Len(t) : s[k + j] = t[j]

\* PostgreSQL  text ILIKE '%' || pat || '%' : case-insensitive, '_' in the
\* pattern matches any one character ('%' cannot occur in a \w+\.\w+ name)
ILikeContains(text, pat) ==
  \E k \in 0..(Len(text) - Len(pat)) :
    \A j \in 1..Len(pat) :
      \/ pat[j] = "_"
      \/ LowerChar(text[k + j]) = LowerChar(pat[j])

\* str(i) for 0 <= i < 1000
Digit(d) == Alphabet[d + 3]

IntStr(i) ==
  IF i < 10 THEN << Digit(i) >>
  ELSE IF i < 100 THEN << Digit(i \div 10), Digit(i % 10) >>
  ELSE << Digit(i \div 100), Digit((i \div 10) % 10), Digit(i % 10) >>

\* s.split('#')[0]
RECURSIVE SplitHash0(_)
SplitHash0(s) ==
  IF s = << >> \/ s[1] = "#" THEN << >>
  ELSE << s[1] >> \o SplitHash0(Tail(s))


\* ------------------------------------------------------------ the inputs

None == "None"

\* IngestRequest.user_id (schemas.py: default "default")
ReqUsers == {"default", "u1"}

Repos == {"r1", "r2"}

\* the file paths the fetched repositories hold
PathText(p) ==
  CASE p = 1 -> << "R", "E", "A", "D", "M", "E", ".", "m", "d" >>
    [] p = 2 -> << "a", "p", "p", ".", "p", "y" >>
    [] p = 3 -> << "a", "_", "b", ".", "p", "y" >>
    [] p = 4 -> << "a", "x", "b", ".", "p", "y" >>
    [] p = 5 -> << "d", "#", "a", "p", "p", ".", "p", "y" >>
    [] p = 6 -> << "b", "i", "g", ".", "p", "y" >>

\* What fetch_repository_content can return: (documents, all_file_paths).
\* A document is a file path, whether its content is blank, whether the
\* code splitter fails on it (malformed), and the number of nodes the
\* splitter that handles it makes of it.  Paths above 6 are files the tree
\* lists and the scraper does not fetch.
Doc(p, n) == [path |-> p, blank |-> FALSE, malformed |-> FALSE, nodes |-> n]

BlankDoc(p) == [path |-> p, blank |-> TRUE, malformed |-> FALSE, nodes |-> 0]

MalformedDoc(p, n) == [path |-> p, blank |-> FALSE, malformed |-> TRUE, nodes |-> n]

Contents ==
  << [documents |-> << >>, all_file_paths |-> << >>],
     [documents |-> << Doc(1, 1), Doc(2, 2), BlankDoc(4) >>,
      all_file_paths |-> << 1, 2, 4 >>],
     [documents |-> << Doc(1, 1), MalformedDoc(3, 1), Doc(4, 1), Doc(2, ManyChunks),
                       Doc(5, 1) >>,
      all_file_paths |-> << 1, 3, 2, 4, 5 >>],
     [documents |-> << Doc(6, HugeChunks) >>,
      all_file_paths |-> [k \in 1..ManyPaths |-> k + 5]] >>

\* the contents GitHub may serve for each repository
RepoContents(repo_url) == IF repo_url = "r1" THEN {1, 2, 3} ELSE {1, 4}

\* ------------------------------------------------------------------ state

VARIABLES
  store,            \* the rows of table 'documents', in insertion order
  ingest_pipeline,  \* per process: user_id of routes._ingest_pipeline, or None
  query_pipeline,   \* per process: user_id of routes._query_pipeline, or None
  req,              \* per process: the ingest or delete request being handled
  qout              \* per process: the result of the query being answered

vars == << store, ingest_pipeline, query_pipeline, req, qout >>

\* server processes sharing the store
Procs == {1, 2}

Idle ==
  [pc |-> "idle", kind |-> "none", repo_url |-> "", user_id |-> "",
   content |-> 0, i |-> 0, total_inserted |-> 0, before |-> 0,
   failed_batch |-> 0, status |-> "", embed_calls |-> 0, embedded |-> 0]

\* no row: what a lookup that finds nothing, or raises, stands for
NoRow ==
  [repo_url |-> "", path |-> -1, chunk |-> 0, user_id |-> "", file_type |-> "",
   total_files |-> 0, total_chunks |-> 0, chunking_method |-> "",
   embedding |-> 0]

NoResult ==
  [status |-> "none", repo_url |-> "", q |-> 0, user_id |-> "",
   target |-> << >>, stage |-> "", made |-> {}, raised |-> {},
   n_documents |-> 0,
   top_docs |-> << >>, file_list |-> NoRow, context |-> << >>,
   sources |-> << >>, answer |-> "",
   llm_model |-> "", model_used |-> "", model_sent |-> ""]

Init ==
  /\ store = << >>
  /\ ingest_pipeline = [w \in Procs |-> None]
  /\ query_pipeline = [w \in Procs |-> None]
  /\ req = [w \in Procs |-> Idle]
  /\ qout = [w \in Procs |-> NoResult]

\* ------------------------------------------------------------------ store

RepoRows(s, repo_url) == SelectSeq(s, LAMBDA r : r.repo_url = repo_url)

\* .select('id').eq('repo_url', repo_url).limit(1); an exception gives False
check_repo_exists(s, repo_url, raises) ==
  IF raises THEN FALSE ELSE Len(RepoRows(s, repo_url)) > 0

\* routes.get_ingest_pipeline: the instance is made once per process
get_ingest_pipeline(cur, user_id) == IF cur = None THEN user_id ELSE cur

\* -------------------------------------------------------------- ingestion

FILE_LIST == 0

\* the embedding model: a fixed function of the text it is given
Embed(path, chunk) == (path + chunk) % 4

ListingRecord(repo_url, c, self_user_id) ==
  [repo_url |-> repo_url, path |-> FILE_LIST, chunk |-> 0,
   user_id |-> self_user_id, file_type |-> "metadata",
   total_files |-> Len(Contents[c].all_file_paths),
   total_chunks |-> 0, chunking_method |-> "",
   embedding |-> Embed(FILE_LIST, Len(Contents[c].all_file_paths))]

\* the 'metadata' of the listing record
ListingMetadata(c) ==
  [type |-> "file_list",
   total_files |-> Len(Contents[c].all_file_paths),
   file_paths |-> SubSeq(Contents[c].all_file_paths, 1,
                         IF Len(Contents[c].all_file_paths) < file_paths_cap
                         THEN Len(Contents[c].all_file_paths)
                         ELSE file_paths_cap)]

\* ingest.py _get_language_for_extension, on the catalogue's extensions
get_language_for_extension(p) == IF p = 1 THEN None ELSE "python"

\* ingest.py _get_file_type, on the catalogue's extensions
get_file_type(p) == IF p = 1 THEN "markdown" ELSE "code"

\* the splitter branch, were a failed structural parse to leave the file
\* without nodes
SplitNodes_NoFallback(doc) ==
  IF get_language_for_extension(doc.path) # None
  THEN IF doc.malformed THEN [n |-> 0, by |-> "ast"]
       ELSE [n |-> doc.nodes, by |-> "ast"]
  ELSE [n |-> doc.nodes, by |-> "sentence"]

\* the splitter branch: the code splitter for a file with a language, the
\* text splitter when that raises and for every other file; n is the number
\* of nodes, by the splitter that produced them
SplitNodes(doc) ==
  IF get_language_for_extension(doc.path) # None
  THEN IF doc.malformed THEN [n |-> doc.nodes, by |-> "sentence"]
       ELSE [n |-> doc.nodes, by |-> "ast"]
  ELSE [n |-> doc.nodes, by |-> "sentence"]

\* the chunk records, were chunk_index to count from one
ChunkRecords_OneBased(repo_url, doc, self_user_id) ==
  [k \in 1..SplitNodes(doc).n |->
     [repo_url |-> repo_url, path |-> doc.path, chunk |-> k,
      user_id |-> self_user_id, file_type |-> get_file_type(doc.path),
      total_files |-> 0,
      total_chunks |-> SplitNodes(doc).n,
      chunking_method |->
        IF get_language_for_extension(doc.path) # None THEN "ast" ELSE "sentence",
      embedding |-> Embed(doc.path, k - 1)]]

ChunkRecords(repo_url, doc, self_user_id) ==
  [k \in 1..SplitNodes(doc).n |->
     [repo_url |-> repo_url, path |-> doc.path, chunk |-> k - 1,
      user_id |-> self_user_id, file_type |-> get_file_type(doc.path),
      total_files |-> 0,
      total_chunks |-> SplitNodes(doc).n,
      chunking_method |->
        IF get_language_for_extension(doc.path) # None THEN "ast" ELSE "sentence",
      embedding |-> Embed(doc.path, k - 1)]]

RECURSIVE DocRecords(_, _, _)
DocRecords(repo_url, docs, self_user_id) ==
  IF docs = << >> THEN << >>
  ELSE (IF Head(docs).blank THEN << >>
        ELSE ChunkRecords(repo_url, Head(docs), self_user_id))
       \o DocRecords(repo_url, Tail(docs), self_user_id)

\* texts_to_embed: the listing text first, then the text of every node of
\* every non-blank document; a text is named by its file and its part
RECURSIVE DocTexts(_)
DocTexts(docs) ==
  IF docs = << >> THEN << >>
  ELSE (IF Head(docs).blank THEN << >>
        ELSE [k \in 1..SplitNodes(Head(docs)).n |->
                [path |-> Head(docs).path, part |-> k - 1]])
       \o DocTexts(Tail(docs))

texts_to_embed(c) ==
  (IF Contents[c].all_file_paths # << >>
   THEN << [path |-> FILE_LIST, part |-> Len(Contents[c].all_file_paths)] >>
   ELSE << >>)
  \o DocTexts(Contents[c].documents)

\* _batch_embed: one embedding per text, in the order of the texts
batch_embed(texts) ==
  [k \in 1..Len(texts) |-> Embed(texts[k].path, texts[k].part)]

\* process_documents, were the listing appended after the chunks
AllRecords_ListingLast(repo_url, c, self_user_id) ==
  DocRecords(repo_url, Contents[c].documents, self_user_id)
  \o (IF Contents[c].all_file_paths # << >>
      THEN << ListingRecord(repo_url, c, self_user_id) >> ELSE << >>)

\* process_documents up to the insert loop: the listing first, then every
\* chunk of every non-blank document, each with its embedding
AllRecords(repo_url, c, self_user_id) ==
  (IF Contents[c].all_file_paths # << >>
   THEN << ListingRecord(repo_url, c, self_user_id) >> ELSE << >>)
  \o DocRecords(repo_url, Contents[c].documents, self_user_id)

Min(a, b) == IF a < b THEN a ELSE b

\* the slice, were it to start one record late
Batch_SkipsOne(records, i) ==
  SubSeq(records, i + 2, Min(i + batch_size, Len(records)))

\* all_records[i:i + batch_size]
Batch(records, i) == SubSeq(records, i + 1, Min(i + batch_size, Len(records)))

\* ingestion runs of repo_url: those with a listing row stored, and those
\* past the existence check that have not written their first batch
Copies(repo_url) ==
  Len(SelectSeq(store, LAMBDA r : r.repo_url = repo_url /\ r.path = FILE_LIST))
  + Cardinality({w \in Procs : /\ req[w].pc \in {"scrape", "embed", "insert"}
                               /\ req[w].repo_url = repo_url
                               /\ req[w].i = 0})

\* the runs of a repository beyond its first
Repeats(repo_url) == IF Copies(repo_url) > 1 THEN Copies(repo_url) - 1 ELSE 0

AllRepeats == Repeats("r1") + Repeats("r2")

\* POST /ingest up to the existence check
IngestStart(w) ==
  /\ req[w].pc = "idle"
  /\ qout[w] = NoResult
  /\ \E repo_url \in Repos, user_id \in ReqUsers, raises \in BOOLEAN :
       /\ \/ check_repo_exists(store, repo_url, raises)
          \/ Copies(repo_url) = 0
          \/ AllRepeats < MaxRepeats
       /\ ingest_pipeline' =
            [ingest_pipeline EXCEPT ![w] = get_ingest_pipeline(@, user_id)]
       /\ req' = [req EXCEPT ![w] =
            IF check_repo_exists(store, repo_url, raises)
            THEN [Idle EXCEPT !.pc = "done", !.kind = "ingest",
                              !.repo_url = repo_url, !.user_id = user_id,
                              !.before = Len(RepoRows(store, repo_url)),
                              !.status = "info"]
            ELSE [Idle EXCEPT !.pc = "scrape", !.kind = "ingest",
                              !.repo_url = repo_url, !.user_id = user_id,
                              !.before = Len(RepoRows(store, repo_url))]]
  /\ UNCHANGED << store, query_pipeline, qout >>

\* the route, were it to leave the empty-result test out
IngestScrape_EmptyGoesOn(w) ==
  /\ req[w].pc = "scrape"
  /\ \/ \E c \in RepoContents(req[w].repo_url) :
          req' = [req EXCEPT ![w] = [@ EXCEPT !.pc = "embed", !.content = c]]
     \/ req' = [req EXCEPT ![w] = [@ EXCEPT !.pc = "done", !.status = "500"]]
  /\ UNCHANGED << store, ingest_pipeline, query_pipeline, qout >>

\* github_scraper.fetch_repository_content, then the empty-result test
IngestScrape(w) ==
  /\ req[w].pc = "scrape"
  /\ \/ \E c \in RepoContents(req[w].repo_url) :
          req' = [req EXCEPT ![w] =
            IF Contents[c].documents = << >>
            THEN [@ EXCEPT !.pc = "done", !.status = "404", !.content = c]
            ELSE [@ EXCEPT !.pc = "embed", !.content = c]]
     \/ req' = [req EXCEPT ![w] = [@ EXCEPT !.pc = "done", !.status = "500"]]
  /\ UNCHANGED << store, ingest_pipeline, query_pipeline, qout >>

\* process_documents, were it to embed and insert batch by batch: the
\* embedding error comes after the first batch is stored
IngestEmbed_PerBatch(w) ==
  /\ req[w].pc = "embed"
  /\ \/ /\ req' = [req EXCEPT ![w] =
              IF AllRecords(@.repo_url, @.content, ingest_pipeline[w]) = << >>
              THEN [@ EXCEPT !.pc = "done", !.status = "success"]
              ELSE [@ EXCEPT !.pc = "insert"]]
        /\ store' = store
     \/ /\ req' = [req EXCEPT ![w] = [@ EXCEPT !.pc = "done", !.status = "500"]]
        /\ store' = store \o Batch(AllRecords(req[w].repo_url, req[w].content,
                                               ingest_pipeline[w]), 0)
  /\ UNCHANGED << ingest_pipeline, query_pipeline, qout >>

\* process_documents: chunking, the early return when there is no text,
\* and the one _batch_embed call
IngestEmbed(w) ==
  /\ req[w].pc = "embed"
  /\ \/ req' = [req EXCEPT ![w] =
            IF AllRecords(@.repo_url, @.content, ingest_pipeline[w]) = << >>
            THEN [@ EXCEPT !.pc = "done", !.status = "success"]
            ELSE [@ EXCEPT !.pc = "insert", !.embed_calls = @ + 1,
                           !.embedded = Len(texts_to_embed(req[w].content))]]
     \/ req' = [req EXCEPT ![w] =
            [@ EXCEPT !.pc = "done", !.status = "500", !.embed_calls = @ + 1,
                      !.embedded = Len(texts_to_embed(req[w].content))]]
  /\ UNCHANGED << store, ingest_pipeline, query_pipeline, qout >>

\* the except clause, were it to log the error and go on with the next batch
insert_error_Continue(r) ==
  [r EXCEPT !.i = r.i + batch_size, !.failed_batch = r.i \div batch_size + 1]

\* the insert loop's except clause: the error is raised again, and the
\* route answers 500
insert_error(r) ==
  [r EXCEPT !.pc = "done", !.status = "500",
            !.failed_batch = r.i \div batch_size + 1]

\* one turn of the insert loop, were each batch embedded on its own
IngestInsert_EmbedsBatch(w) ==
  /\ req[w].pc = "insert"
  /\ LET r == req[w]
         all_records == AllRecords(r.repo_url, r.content, ingest_pipeline[w])
         batch == Batch(all_records, r.i)
     IN \/ /\ store' = store \o batch
           /\ req' = [req EXCEPT ![w] =
                IF r.i + batch_size >= Len(all_records)
                THEN [r EXCEPT !.pc = "done", !.status = "success",
                               !.i = r.i + batch_size, !.embed_calls = @ + 1,
                               !.total_inserted = r.total_inserted + Len(batch)]
                ELSE [r EXCEPT !.i = r.i + batch_size, !.embed_calls = @ + 1,
                               !.total_inserted = r.total_inserted + Len(batch)]]
        \/ /\ store' = store
           /\ req' = [req EXCEPT ![w] = insert_error(r)]
  /\ UNCHANGED << ingest_pipeline, query_pipeline, qout >>

\* one turn of the insert loop
IngestInsert(w) ==
  /\ req[w].pc = "insert"
  /\ LET r == req[w]
         all_records == AllRecords(r.repo_url, r.content, ingest_pipeline[w])
         batch == Batch(all_records, r.i)
     IN \/ /\ store' = store \o batch
           /\ req' = [req EXCEPT ![w] =
                IF r.i + batch_size >= Len(all_records)
                THEN [r EXCEPT !.pc = "done", !.status = "success",
                               !.i = r.i + batch_size,
                               !.total_inserted = r.total_inserted + Len(batch)]
                ELSE [r EXCEPT !.i = r.i + batch_size,
                               !.total_inserted = r.total_inserted + Len(batch)]]
        \/ /\ store' = store
           /\ req' = [req EXCEPT ![w] = insert_error(r)]
  /\ UNCHANGED << ingest_pipeline, query_pipeline, qout >>

\* .delete().eq('repo_url', repo_url); an exception gives 0
delete_repo_documents(s, repo_url, raises) ==
  IF raises THEN s ELSE SelectSeq(s, LAMBDA r : r.repo_url # repo_url)

\* DELETE /repository
DeleteRepository(w) ==
  /\ req[w].pc = "idle"
  /\ qout[w] = NoResult
  /\ \E repo_url \in Repos, raises \in BOOLEAN :
       /\ ingest_pipeline' =
            [ingest_pipeline EXCEPT ![w] = get_ingest_pipeline(@, "default")]
       /\ store' = delete_repo_documents(store, repo_url, raises)
       /\ req' = [req EXCEPT ![w] =
            [Idle EXCEPT !.pc = "done", !.kind = "delete",
                         !.repo_url = repo_url,
                         !.before = Len(RepoRows(store, repo_url)),
                         !.total_inserted = Len(store) - Len(store'),
                         !.status = "success"]]
  /\ UNCHANGED << query_pipeline, qout >>

\* the response is sent and the process takes the next request
Respond(w) ==
  /\ \/ req[w].pc = "done"
     \/ qout[w] # NoResult
  /\ req' = [req EXCEPT ![w] = Idle]
  /\ qout' = [qout EXCEPT ![w] = NoResult]
  /\ UNCHANGED << store, ingest_pipeline, query_pipeline >>

IngestStep(w) ==
  \/ IngestStart(w)
  \/ IngestScrape(w)
  \/ IngestEmbed(w)
  \/ IngestInsert(w)

\* ------------------------------------------------------------- questions

\* A question is its whitespace-separated tokens and the embedding the model
\* gives it.  A token is a plain lower-case word (w) or a token that holds
\* other characters (name), such as a file name.
W(x) == [w |-> x, name |-> << >>]

N(chars) == [w |-> "", name |-> chars]

Questions ==
  << \* what is this repo about
     [tokens |-> << W("what"), W("is"), W("this"), W("repo"), W("about") >>,
      topic |-> 1],
     \* how do i install it  (close to nothing that is stored)
     [tokens |-> << W("how"), W("do"), W("i"), W("install"), W("it") >>,
      topic |-> 9],
     \* the purpose of d#app.py  (a direct reference to app.py)
     [tokens |-> << W("the"), W("purpose"), W("of"),
                    N(<< "d", "#", "a", "p", "p", ".", "p", "y" >>) >>,
      topic |-> 2],
     \* describe a_b.py
     [tokens |-> << W("describe"), N(<< "a", "_", "b", ".", "p", "y" >>) >>,
      topic |-> 0],
     \* What does README.md say
     [tokens |-> << W("what"), W("does"),
                    N(<< "R", "E", "A", "D", "M", "E", ".", "m", "d" >>),
                    W("say") >>,
      topic |-> 1],
     \* explain the code in main.py  (no such file)
     [tokens |-> << W("explain"), W("the"), W("code"), W("in"),
                    N(<< "m", "a", "i", "n", ".", "p", "y" >>) >>,
      topic |-> 3] >>

\* \w
IsWordChar(c) == c \notin {"#", "."}

\* the length of the longest run of \w characters of s from position k
RECURSIVE WordRun(_, _)
WordRun(s, k) ==
  IF k > Len(s) \/ ~IsWordChar(s[k]) THEN 0 ELSE 1 + WordRun(s, k + 1)

\* (\w+\.\w+) matched at position k of s, or << >>
NameAt(s, k) ==
  LET a == WordRun(s, k)
      b == WordRun(s, k + a + 1)
  IN IF a >= 1 /\ k + a <= Len(s) /\ s[k + a] = "." /\ b >= 1
     THEN SubSeq(s, k, k + a + b)
     ELSE << >>

\* the alternatives of the direct-reference pattern, in its order
Extensions ==
  << << "p", "y" >>, << "j", "s" >>, << "t", "s" >>,
     << "j", "a", "v", "a" >>, << "g", "o" >>, << "r", "s" >>,
     << "r", "b" >>, << "c", "p", "p" >>, << "c" >>,
     << "h", "t", "m", "l" >>, << "c", "s", "s" >> >>

HasPrefixAt(s, k, e) ==
  /\ k + Len(e) - 1 <= Len(s)
  /\ \A j \in 1..Len(e) : s[k + j - 1] = e[j]

\* (\w+\.(?:py|js|...)) matched at position k of s, or << >>
DirectAt(s, k) ==
  LET a == WordRun(s, k)
      hits == {x \in 1..Len(Extensions) : HasPrefixAt(s, k + a + 1, Extensions[x])}
  IN IF a >= 1 /\ k + a <= Len(s) /\ s[k + a] = "." /\ hits # {}
     THEN LET x == CHOOSE y \in hits : \A z \in hits : y <= z
          IN SubSeq(s, k, k + a + Len(Extensions[x]))
     ELSE << >>

\* the patterns with a leading verb: the verb, the words one of which must
\* follow it (none: {}), and the optional word groups before the name
VerbRules ==
  << [verb |-> "explain", then |-> {}, opt |-> << << "the" >>, << "code", "in" >> >>],
     [verb |-> "what", then |-> {"does", "is"}, opt |-> << >>],
     [verb |-> "describe", then |-> {}, opt |-> << >>],
     [verb |-> "analyze", then |-> {}, opt |-> << >>],
     [verb |-> "show", then |-> {}, opt |-> << << "me" >> >>],
     [verb |-> "about", then |-> {}, opt |-> << >>],
     [verb |-> "in", then |-> {}, opt |-> << >>] >>

\* the position after an optional word group at position j
SkipGroup(t, j, g) ==
  IF j + Len(g) - 1 <= Len(t) /\ \A k \in 1..Len(g) : t[j + k - 1].w = g[k]
  THEN j + Len(g) ELSE j

RECURSIVE SkipGroups(_, _, _)
SkipGroups(t, j, gs) ==
  IF gs = << >> THEN j ELSE SkipGroups(t, SkipGroup(t, j, Head(gs)), Tail(gs))

\* the name a verb rule captures with its verb at token i, or << >>
VerbMatchAt(t, i, rule) ==
  IF t[i].w # rule.verb THEN << >>
  ELSE LET j == IF rule.then = {} THEN i + 1 ELSE i + 2
           ok == rule.then = {} \/ (i + 1 <= Len(t) /\ t[i + 1].w \in rule.then)
           n == IF ok THEN SkipGroups(t, j, rule.opt) ELSE 0
       IN IF ok /\ n <= Len(t) THEN NameAt(t[n].name, 1) ELSE << >>

\* re.search: the leftmost match of one verb rule
VerbMatch(t, rule) ==
  LET at == {i \in 1..Len(t) : VerbMatchAt(t, i, rule) # << >>}
  IN IF at = {} THEN << >>
     ELSE VerbMatchAt(t, CHOOSE i \in at : \A k \in at : i <= k, rule)

\* re.search of the direct-reference pattern: the leftmost match
DirectMatch(t) ==
  LET at == {x \in (1..Len(t)) \X (1..10) :
               x[2] <= Len(t[x[1]].name) /\ DirectAt(t[x[1]].name, x[2]) # << >>}
  IN IF at = {} THEN << >>
     ELSE LET x == CHOOSE y \in at :
                     \A z \in at : y[1] < z[1] \/ (y[1] = z[1] /\ y[2] <= z[2])
          IN DirectAt(t[x[1]].name, x[2])

RECURSIVE FirstVerbMatch(_, _)
FirstVerbMatch(t, rules) ==
  IF rules = << >> THEN << >>
  ELSE IF VerbMatch(t, Head(rules)) # << >> THEN VerbMatch(t, Head(rules))
  ELSE FirstVerbMatch(t, Tail(rules))

\* question.lower(), then the first pattern that matches; << >> is None
extract_filename_from_question(question) ==
  LET t == [k \in 1..Len(question.tokens) |->
              [w |-> question.tokens[k].w, name |-> Lower(question.tokens[k].name)]]
      v == FirstVerbMatch(t, VerbRules)
  IN IF v # << >> THEN v ELSE DirectMatch(t)

\* target_file = self._extract_filename_from_question(question), for each
\* question of the catalogue
target_file ==
  [q \in 1..Len(Questions) |-> extract_filename_from_question(Questions[q])]

\* ------------------------------------------------------------------- query

\* the file_path of the record of chunk i of a file: '__FILE_LIST__' for
\* the listing, f"{file_path}#chunk_{i}" otherwise
file_path ==
  [p \in 0..6 |->
     [i \in 0..(ManyChunks + HugeChunks) |->
        IF p = FILE_LIST
        THEN << "_", "_", "F", "I", "L", "E", "_", "L", "I", "S", "T", "_", "_" >>
        ELSE PathText(p) \o << "#", "c", "h", "u", "n", "k", "_" >> \o IntStr(i)]]

\* the stored file_path of a row
FilePathStr(row) == file_path[row.path][row.chunk]

\* file_path ILIKE '%filename%', for the filenames the questions name
ilike ==
  [filename \in {target_file[q] : q \in 1..Len(Questions)} |->
     [p \in 0..6 |->
        [i \in 0..(ManyChunks + HugeChunks) |->
           ILikeContains(file_path[p][i], filename)]]]

WithSimilarity(rows, sim) ==
  [k \in 1..Len(rows) |-> [row |-> rows[k], similarity |-> sim]]

\* list.sort(key=...): stable, by code point; the items are [key, doc]
RECURSIVE InsertKeyed(_, _)
InsertKeyed(sorted, x) ==
  IF sorted = << >> THEN << x >>
  ELSE IF StrLess(x.key, sorted[Len(sorted)].key)
       THEN InsertKeyed(SubSeq(sorted, 1, Len(sorted) - 1), x)
            \o << sorted[Len(sorted)] >>
       ELSE sorted \o << x >>

RECURSIVE SortKeyed(_)
SortKeyed(xs) ==
  IF xs = << >> THEN << >>
  ELSE InsertKeyed(SortKeyed(SubSeq(xs, 1, Len(xs) - 1)), xs[Len(xs)])

\* docs.sort(key=lambda x: x['file_path'])
SortByFilePath(docs) ==
  LET keyed == [k \in 1..Len(docs) |->
                  [key |-> FilePathStr(docs[k].row), doc |-> docs[k]]]
      sorted == SortKeyed(keyed)
  IN [k \in 1..Len(sorted) |-> sorted[k].doc]

\* the lookup, were it to leave the ilike filter out
get_file_chunks_AnyFile(s, repo_url, filename, raises) ==
  IF raises THEN << >>
  ELSE SortByFilePath(WithSimilarity(RepoRows(s, repo_url), SimFile))

\* rows of the repository whose file_path is ILIKE %filename%, each with
\* similarity 1.0, sorted by file_path; an exception gives []
get_file_chunks(s, repo_url, filename, raises) ==
  IF raises THEN << >>
  ELSE SortByFilePath(WithSimilarity(
         SelectSeq(s, LAMBDA r : /\ r.repo_url = repo_url
                                 /\ ilike[filename][r.path][r.chunk]),
         SimFile))

\* cosine similarity of two embeddings, in hundredths
Similarity(qe, de) ==
  IF qe = de THEN 90
  ELSE IF qe = 9 THEN (IF de = 0 THEN threshold ELSE 5)
  ELSE IF (qe + 1) % 4 = de THEN 40
  ELSE 10

SimLevels == << 90, 40, threshold, 10, 5 >>

RECURSIVE RankedRows(_, _, _)
RankedRows(rows, qe, levels) ==
  IF levels = << >> THEN << >>
  ELSE WithSimilarity(
         SelectSeq(rows, LAMBDA r : Similarity(qe, r.embedding) = Head(levels)),
         Head(levels))
       \o RankedRows(rows, qe, Tail(levels))

Take(seq, n) == SubSeq(seq, 1, Min(n, Len(seq)))

\* the store's match_documents function: the rows of match_repo_url whose
\* similarity is above match_threshold, best first, at most match_count
match_documents(s, qe, match_repo_url, match_threshold, match_count) ==
  Take(SelectSeq(RankedRows(RepoRows(s, match_repo_url), qe, SimLevels),
                 LAMBDA d : d.similarity > match_threshold),
       match_count)

\* the rpc call; an exception gives []
search_similar(s, qe, repo_url, k, thr, raises) ==
  IF raises THEN << >> ELSE match_documents(s, qe, repo_url, thr, k)

\* the fallback, were it to leave .limit(limit) out
get_all_documents_NoLimit(s, repo_url, limit, raises) ==
  IF raises THEN << >> ELSE WithSimilarity(RepoRows(s, repo_url), SimFallback)

\* the first `limit` rows of the repository, each with similarity 0.5; an
\* exception gives []
get_all_documents(s, repo_url, limit, raises) ==
  IF raises THEN << >>
  ELSE WithSimilarity(Take(RepoRows(s, repo_url), limit), SimFallback)

\* the listing lookup, were it to leave .eq('repo_url', repo_url) out
get_file_list_AnyRepo(s, repo_url, raises) ==
  LET rows == SelectSeq(s, LAMBDA r : r.path = FILE_LIST)
  IN IF raises \/ rows = << >> THEN NoRow ELSE rows[1]

\* the content of the repository's __FILE_LIST__ row (here: the row), or
\* None (NoRow); an exception gives None
get_file_list(s, repo_url, raises) ==
  LET rows == SelectSeq(s, LAMBDA r : r.repo_url = repo_url /\ r.path = FILE_LIST)
  IN IF raises \/ rows = << >> THEN NoRow ELSE rows[1]

\* the store and provider calls of one query that may raise
Calls == {"exists", "file_chunks", "embed", "search", "fallback", "file_list",
          "generate"}

\* the [Document i - file_path] parts of the context; the content of part i
\* is that of top_docs[i]
RECURSIVE ContextDocs(_, _)
ContextDocs(top_docs, i) ==
  IF i > Len(top_docs) THEN << >>
  ELSE (IF SplitHash0(FilePathStr(top_docs[i].row)) = file_path[FILE_LIST][0]
        THEN << >>
        ELSE << [part |-> "document", i |-> i,
                 file_path |-> SplitHash0(FilePathStr(top_docs[i].row))] >>)
       \o ContextDocs(top_docs, i + 1)

\* the slice, were it left out
TopDocs_NoCap(documents) == documents

\* documents[:10]
TopDocs(documents) == Take(documents, top_docs_cap)

\* the sources of the response; source k is made of top_docs[k]
Sources(top_docs) ==
  [k \in 1..Len(top_docs) |->
     [file_path |-> SplitHash0(FilePathStr(top_docs[k].row)),
      similarity |-> top_docs[k].similarity,
      file_type |-> top_docs[k].row.file_type]]

\* query(), the first retrieval: the file's chunks when the question names
\* a file, the similarity search otherwise
first_documents(s, q, repo_url, faults) ==
  IF target_file[q] # << >>
  THEN get_file_chunks(s, repo_url, target_file[q], "file_chunks" \in faults)
     ELSE search_similar(s, Questions[q].topic, repo_url, top_k, threshold,
                      "search" \in faults)

\* query(), were the fallback lookup made whatever the first retrieval gave
fallback_documents_Always(s, first, repo_url, faults) ==
  get_all_documents(s, repo_url, fallback_limit, "fallback" \in faults)

\* query(), the fallback: taken when the first retrieval gave nothing
fallback_documents(s, first, repo_url, faults) ==
  IF first = << >>
  THEN get_all_documents(s, repo_url, fallback_limit, "fallback" \in faults)
  ELSE first

\* query(), were the except clause of the generation to return no sources
compose_ErrorDropsSources(s, self_user_id, q, repo_url, first, documents, faults) ==
  LET stage ==
        IF first = << >> THEN "fallback"
        ELSE IF target_file[q] # << >> THEN "file" ELSE "semantic"
      made ==
        {"exists"}
        \cup (IF target_file[q] # << >> THEN {"file_chunks"} ELSE {"embed", "search"})
        \cup (IF first = << >> THEN {"fallback"} ELSE {})
        \cup (IF documents # << >> THEN {"file_list", "generate"} ELSE {})
      file_list == get_file_list(s, repo_url, "file_list" \in faults)
      top_docs == TopDocs(documents)
      base == [NoResult EXCEPT !.status = "ok", !.repo_url = repo_url, !.q = q,
                               !.user_id = self_user_id,
                               !.target = target_file[q], !.stage = stage,
                               !.made = made, !.raised = faults \cap made]
  IN IF documents = << >>
     THEN [base EXCEPT !.answer = "no documents"]
     ELSE [base EXCEPT
             !.n_documents = Len(documents), !.top_docs = top_docs,
             !.file_list = file_list,
             !.context =
               (IF file_list # NoRow
                THEN << [part |-> "file list", i |-> 0, file_path |-> << >>] >>
                ELSE << >>)
               \o ContextDocs(top_docs, 1),
             !.sources = IF "generate" \in faults THEN << >> ELSE Sources(top_docs),
             !.answer = IF "generate" \in faults
                        THEN "Error generating answer" ELSE "generated"]

\* query(), from the retrieved documents to the returned dict
compose(s, self_user_id, q, repo_url, first, documents, faults) ==
  LET stage ==
        IF first = << >> THEN "fallback"
        ELSE IF target_file[q] # << >> THEN "file" ELSE "semantic"
      made ==
        {"exists"}
        \cup (IF target_file[q] # << >> THEN {"file_chunks"} ELSE {"embed", "search"})
        \cup (IF first = << >> THEN {"fallback"} ELSE {})
        \cup (IF documents # << >> THEN {"file_list", "generate"} ELSE {})
      file_list == get_file_list(s, repo_url, "file_list" \in faults)
      top_docs == TopDocs(documents)
      base == [NoResult EXCEPT !.status = "ok", !.repo_url = repo_url, !.q = q,
                               !.user_id = self_user_id,
                               !.target = target_file[q], !.stage = stage,
                               !.made = made, !.raised = faults \cap made]
  IN IF documents = << >>
     THEN [base EXCEPT !.answer = "no documents"]
     ELSE [base EXCEPT
             !.n_documents = Len(documents), !.top_docs = top_docs,
             !.file_list = file_list,
             !.context =
               (IF file_list # NoRow
                THEN << [part |-> "file list", i |-> 0, file_path |-> << >>] >>
                ELSE << >>)
               \o ContextDocs(top_docs, 1),
             !.sources = Sources(top_docs),
             !.answer = IF "generate" \in faults
                        THEN "Error generating answer" ELSE "generated"]

\* QueryPipeline.query with the calls in `faults` raising
query(s, self_user_id, q, repo_url, faults) ==
  LET first == first_documents(s, q, repo_url, faults)
      documents == fallback_documents(s, first, repo_url, faults)
  IN compose(s, self_user_id, q, repo_url, first, documents, faults)

\* llm.py MODELS: the id of each registry key
MODELS ==
  [k \in {"nemotron", "gpt-oss"} |->
     IF k = "nemotron" THEN "nvidia/nemotron-3-nano-30b-a3b:free"
     ELSE "openai/gpt-oss-120b:free"]

DEFAULT_MODEL == "nemotron"

\* the llm_model values of a request: the two registry keys, a key the
\* registry does not hold, and the empty value
LlmModels == {"nemotron", "gpt-oss", "mistral", ""}

\* generate_answer: the model id it selects for a model_key
generate_answer_model(model_key) ==
  LET key == IF model_key = "" THEN DEFAULT_MODEL ELSE model_key
  IN IF key \in DOMAIN MODELS THEN MODELS[key] ELSE MODELS[DEFAULT_MODEL]

\* model_preference or "nemotron"
model_used(model_preference) ==
  IF model_preference = "" THEN "nemotron" ELSE model_preference

\* the model fields of a result of query(): without documents no model is
\* called and "nemotron" is reported
model_fields(result, model_preference) ==
  IF "generate" \in result.made
  THEN [result EXCEPT !.llm_model = model_preference,
                      !.model_used = model_used(model_preference),
                      !.model_sent = generate_answer_model(model_preference)]
  ELSE [result EXCEPT !.llm_model = model_preference,
                      !.model_used = "nemotron"]

\* routes.get_query_pipeline: made once per process, always with "default"
get_query_pipeline(cur, user_id) == IF cur = None THEN user_id ELSE cur

\* the calls of the first retrieval of a query
FirstCalls(q) ==
  IF target_file[q] # << >>
  THEN {"file_chunks"} ELSE {"embed", "search"}

\* POST /query with llm_model among `models`: the existence check, then
\* QueryPipeline.query; each call that is made may raise
QueryRepositoryOf(w, models) ==
  /\ req[w].pc = "idle"
  /\ qout[w] = NoResult
  /\ \E repo_url \in Repos, q \in 1..Len(Questions) :
       LET self_user_id == get_query_pipeline(query_pipeline[w], "default")
           early == [NoResult EXCEPT !.repo_url = repo_url, !.q = q,
                                     !.user_id = self_user_id]
       IN /\ query_pipeline' = [query_pipeline EXCEPT ![w] = self_user_id]
          /\ \/ \E f0 \in SUBSET {"exists"} :
                  /\ ~check_repo_exists(store, repo_url, "exists" \in f0)
                  /\ qout' = [qout EXCEPT ![w] =
                       [early EXCEPT !.status = "404", !.made = {"exists"},
                                     !.raised = f0]]
             \/ /\ check_repo_exists(store, repo_url, FALSE)
                /\ "embed" \in FirstCalls(q)
                /\ qout' = [qout EXCEPT ![w] =
                     [early EXCEPT !.status = "500", !.raised = {"embed"},
                        !.made = {"exists", "embed"},
                        !.target = target_file[q]]]
             \/ /\ check_repo_exists(store, repo_url, FALSE)
                /\ \E f1 \in SUBSET (FirstCalls(q) \ {"embed"}) :
                     LET first == first_documents(store, q, repo_url, f1)
                     IN \E f2 \in SUBSET (IF first = << >> THEN {"fallback"} ELSE {}) :
                          LET documents ==
                                fallback_documents(store, first, repo_url, f2)
                          IN \E f3 \in SUBSET (IF documents # << >>
                                               THEN {"file_list", "generate"}
                                               ELSE {}),
                                llm_model \in models :
                               qout' = [qout EXCEPT ![w] =
                                 model_fields(
                                   compose(store, self_user_id, q, repo_url, first,
                                           documents, f1 \cup f2 \cup f3),
                                   llm_model)]
  /\ UNCHANGED << store, ingest_pipeline, req >>

\* POST /query of a request that leaves llm_model at the schema's default
QueryRepository(w) == QueryRepositoryOf(w, {"nemotron"})

\* the requests one server process handles, one at a time
Handle(w) ==
  \/ IngestStep(w)
  \/ DeleteRepository(w)
  \/ QueryRepository(w)
  \/ Respond(w)

Next == Handle(1)

Spec == Init /\ [][Next]_vars

\* the repository the processes of SpecMulti race on
RaceRepo == "r1"

\* several server processes on one store: ingest and delete requests
NextMulti ==
  /\ \E w \in Procs : IngestStep(w) \/ DeleteRepository(w) \/ Respond(w)
  /\ \A w \in Procs : req'[w].repo_url \in {"", RaceRepo}

SpecMulti == Init /\ [][NextMulti]_vars

\* one server process and one repository: requests that name any llm_model
NextModels ==
  /\ \/ IngestStep(1)
     \/ DeleteRepository(1)
     \/ QueryRepositoryOf(1, LlmModels)
     \/ Respond(1)
  /\ req'[1].repo_url \in {"", RaceRepo}
  /\ qout'[1].repo_url \in {"", RaceRepo}

SpecModels == Init /\ [][NextModels]_vars


\* ------------------------------------------------------------------ claims

\* the ingest requests that have been answered and not yet cleared
Answered(w) == req[w].kind = "ingest" /\ req[w].pc = "done"

IsFileList(chars) == chars = file_path[FILE_LIST][0]

\* C1 (as claimed): an ingest request for a repo_url that already had stored
\* rows when it arrived leaves the number of rows of that repo_url as it was.
C1_ReingestWritesNothing ==
  \A w \in Procs :
    (Answered(w) /\ req[w].before > 0)
      => Len(RepoRows(store, req[w].repo_url)) = req[w].before

\* C2 (as claimed): no two ingestion runs for the same repo_url are at the
\* same time between their existence check and their last batch insert.
InProgress(w) == req[w].pc \in {"scrape", "embed", "insert"}

C2_OneIngestPerRepo ==
  \A v, w \in Procs :
    (v # w /\ InProgress(v) /\ InProgress(w)) => req[v].repo_url # req[w].repo_url

\* the display path of a returned document, lower-cased
DisplayPath(doc) == Lower(SplitHash0(FilePathStr(doc.row)))

C4_FallbackNeverEmpty ==
  \A w \in Procs :
    (/\ qout[w].status = "ok"
     /\ qout[w].target = << >>
     /\ qout[w].stage = "fallback"
     /\ RepoRows(store, qout[w].repo_url) # << >>)
      => /\ Len(qout[w].top_docs) \in 1..fallback_limit
         /\ \A k \in 1..Len(qout[w].top_docs) :
              qout[w].top_docs[k].similarity = SimFallback

\* C4 (amended): the same, provided the fallback lookup does not raise; when
\* it raises, the error is swallowed and the result is empty.
C4_FallbackUnlessRaised ==
  \A w \in Procs :
    (/\ qout[w].status = "ok"
     /\ qout[w].target = << >>
     /\ qout[w].stage = "fallback")
      => IF "fallback" \in qout[w].raised
         THEN qout[w].top_docs = << >> /\ qout[w].sources = << >>
         ELSE /\ RepoRows(store, qout[w].repo_url) # << >>
                   => Len(qout[w].top_docs) \in 1..fallback_limit
              /\ qout[w].top_docs = << >>
                   => RepoRows(store, qout[w].repo_url) = << >>
              /\ \A k \in 1..Len(qout[w].top_docs) :
                   qout[w].top_docs[k].similarity = SimFallback

C4_Witness ==
  \E w \in Procs :
    /\ qout[w].status = "ok"
    /\ qout[w].target = << >>
    /\ qout[w].stage = "fallback"
    /\ qout[w].raised = {}
    /\ Len(qout[w].top_docs) = fallback_limit
    /\ Len(RepoRows(store, qout[w].repo_url)) > fallback_limit

\* the [Document i - ...] parts of a context
DocumentParts(context) == SelectSeq(context, LAMBDA c : c.part = "document")

\* C5: a query returns at most 10 sources and puts at most 10 documents in
\* the context, whichever stage gave the documents.
C5_AtMostTen ==
  \A w \in Procs :
    /\ Len(qout[w].sources) <= 10
    /\ Len(qout[w].top_docs) <= 10
    /\ Len(DocumentParts(qout[w].context)) <= 10

C5_Witness ==
  \E w \in Procs :
    /\ qout[w].stage = "file"
    /\ qout[w].n_documents > 10
    /\ Len(qout[w].sources) = 10
    /\ Len(DocumentParts(qout[w].context)) = 10

\* C6 (as claimed): the file-listing row takes none of the returned document
\* slots and is not among the scored sources.
C6_ListingNotAmongSources ==
  \A w \in Procs :
    \A k \in 1..Len(qout[w].sources) : ~IsFileList(qout[w].sources[k].file_path)

\* C7: every document a query on repo_url returns, and the file listing it
\* puts in the context, is a row stored with that repo_url.
C7_NoCrossRepoLeak ==
  \A w \in Procs :
    qout[w].status = "ok"
      => /\ \A k \in 1..Len(qout[w].top_docs) :
              qout[w].top_docs[k].row.repo_url = qout[w].repo_url
         /\ qout[w].file_list # NoRow
              => qout[w].file_list.repo_url = qout[w].repo_url

\* a query answered from the first rows of the store's second repository
C7_Witness ==
  \E w \in Procs :
    /\ qout[w].status = "ok"
    /\ qout[w].top_docs # << >>
    /\ qout[w].file_list # NoRow
    /\ store[1].repo_url # qout[w].repo_url
    /\ store[1].path = FILE_LIST

\* C8 (as claimed): a query made for an owner returns only rows stored under
\* that owner.  The owner of a query is its pipeline's user_id.
C8_QueryScopedToOwner ==
  \A w \in Procs :
    \A k \in 1..Len(qout[w].top_docs) :
      qout[w].top_docs[k].row.user_id = qout[w].user_id

\* C9 (as claimed): the rows an ingest request has inserted carry the
\* user_id of that request.
C9_RowsCarryRequestOwner ==
  \A w \in Procs :
    (req[w].kind = "ingest" /\ req[w].total_inserted > 0)
      => \A k \in (Len(store) - req[w].total_inserted + 1)..Len(store) :
           store[k].user_id = req[w].user_id

\* C10: once the insert of batch k has failed, the run is over with an
\* error for the caller, no later batch was sent, and the rows the run added
\* to the repository are those of batches 1..k-1, in their order.
C10_BatchFailureKeepsPrefix ==
  \A w \in Procs :
    (req[w].kind = "ingest" /\ req[w].failed_batch > 0)
      => LET r == req[w]
             written == (r.failed_batch - 1) * batch_size
             rows == RepoRows(store, r.repo_url)
             all_records == AllRecords(r.repo_url, r.content, ingest_pipeline[w])
         IN /\ r.pc = "done"
            /\ r.status = "500"
            /\ r.total_inserted = written
            /\ Len(rows) = r.before + written
            /\ SubSeq(rows, r.before + 1, Len(rows)) = SubSeq(all_records, 1, written)
            /\ written < Len(all_records)

C10_Witness ==
  \E w \in Procs :
    /\ req[w].kind = "ingest"
    /\ req[w].failed_batch = 2
    /\ req[w].total_inserted = batch_size
    /\ Len(RepoRows(store, req[w].repo_url)) >= batch_size

\* an ingest request that ended in the error of the embedding call
EmbedFailed(w) ==
  /\ Answered(w)
  /\ req[w].status = "500"
  /\ req[w].content # 0
  /\ req[w].failed_batch = 0

\* C11: when the embedding call of an ingestion run fails, the request ends
\* with an error for the caller and the run has inserted no record: the
\* repository holds the rows it held when the request arrived.
C11_EmbedFailureWritesNothing ==
  \A w \in Procs :
    EmbedFailed(w)
      => /\ req[w].total_inserted = 0
         /\ Len(RepoRows(store, req[w].repo_url)) = req[w].before

C11_Witness ==
  \E w \in Procs :
    /\ EmbedFailed(w)
    /\ Len(AllRecords(req[w].repo_url, req[w].content, ingest_pipeline[w]))
         > batch_size
    /\ store # << >>

\* C12 (as claimed): an ingest request whose fetch returned zero files does
\* not end in an error: its outcome is a success or an information.
C12_ZeroFilesIsNoError ==
  \A w \in Procs :
    (/\ Answered(w)
     /\ req[w].content # 0
     /\ Contents[req[w].content].documents = << >>)
      => req[w].status \in {"success", "info"}

\* an ingest request whose fetch returned zero files
FetchedNothing(w) ==
  /\ Answered(w)
  /\ req[w].content # 0
  /\ Contents[req[w].content].documents = << >>

\* C12 (amended): an ingest request whose fetch returned zero files ends
\* with the not-found outcome (404) and has written nothing: the repository
\* holds the rows it held when the request arrived.
C12_ZeroFilesIsNotFound ==
  \A w \in Procs :
    FetchedNothing(w)
      => /\ req[w].status = "404"
         /\ req[w].total_inserted = 0
         /\ Len(RepoRows(store, req[w].repo_url)) = req[w].before

C12_Witness ==
  \E w \in Procs :
    /\ FetchedNothing(w)
    /\ req[w].status = "404"
    /\ store # << >>

\* C16 (as claimed): a delete request for a repository that held rows
\* returns the number of rows it held, which is at least 1, and leaves the
\* repository without rows.
C16_DeleteRemovesAll ==
  \A w \in Procs :
    (req[w].kind = "delete" /\ req[w].pc = "done" /\ req[w].before > 0)
      => /\ req[w].total_inserted >= 1
         /\ req[w].total_inserted = req[w].before
         /\ ~check_repo_exists(store, req[w].repo_url, FALSE)

\* the store calls of the retrieval
StoreCalls == {"file_chunks", "search", "fallback", "file_list"}

\* C13 (as claimed): a query in which a store call of the retrieval raised
\* is answered without an error, and the stage after the failing one was
\* tried: the similarity search after the file lookup, the fallback after
\* the similarity search.
C13_StoreErrorGoesToNextStage ==
  \A w \in Procs :
    (qout[w].raised \cap StoreCalls) # {}
      => /\ qout[w].status = "ok"
         /\ "file_chunks" \in qout[w].raised => "search" \in qout[w].made
         /\ "search" \in qout[w].raised => "fallback" \in qout[w].made

\* C14 (as claimed): the no-information answer is given only when the
\* repository has no file-listing row.
C14_NoInformationOnlyWithoutListing ==
  \A w \in Procs :
    (qout[w].status = "ok" /\ qout[w].answer = "no documents")
      => get_file_list(store, qout[w].repo_url, FALSE) = NoRow

\* C15: when the generation raises, the query still returns a result: its
\* answer is the error message and its sources are those of the same query
\* with the generation succeeding.
C15_GenerationErrorKeepsSources ==
  \A w \in Procs :
    "generate" \in qout[w].raised
      => LET good == query(store, qout[w].user_id, qout[w].q, qout[w].repo_url,
                           qout[w].raised \ {"generate"})
         IN /\ qout[w].status = "ok"
            /\ qout[w].answer = "Error generating answer"
            /\ good.answer = "generated"
            /\ qout[w].sources = good.sources
            /\ qout[w].sources # << >>

C15_Witness ==
  \E w \in Procs :
    /\ "generate" \in qout[w].raised
    /\ qout[w].answer = "Error generating answer"
    /\ Len(qout[w].sources) >= 2

\* C17 (as claimed): when a filename is detected and the file lookup gives
\* nothing, the question is embedded and the similarity search is made
\* before the fallback lookup.
C17_SemanticBeforeFallback ==
  \A w \in Procs :
    (/\ qout[w].status = "ok"
     /\ qout[w].target # << >>
     /\ "fallback" \in qout[w].made)
      => {"embed", "search"} \subseteq qout[w].made

\* C18: when the file lookup gives a document, the documents are its
\* documents and no embedding, similarity search or fallback lookup is made;
\* when the similarity search gives a document, the documents are its
\* documents and no fallback lookup is made.
C18_StagesShortCircuit ==
  \A w \in Procs :
    qout[w].status = "ok"
      => LET r == qout[w]
         IN /\ r.stage = "file"
                 => /\ r.made \cap {"embed", "search", "fallback"} = {}
                    /\ r.top_docs # << >>
                    /\ r.top_docs =
                         TopDocs(get_file_chunks(store, r.repo_url, r.target, FALSE))
            /\ r.stage = "semantic"
                 => /\ "fallback" \notin r.made
                    /\ r.top_docs # << >>
                    /\ r.top_docs =
                         TopDocs(search_similar(store, Questions[r.q].topic,
                                                r.repo_url, top_k, threshold, FALSE))
            /\ r.stage \in {"file", "semantic"} \/ "fallback" \in r.made

\* a similarity search that gave documents where the fallback would have
\* given others
C18_Witness ==
  \E w \in Procs :
    /\ qout[w].status = "ok"
    /\ qout[w].stage = "semantic"
    /\ {"embed", "search"} \subseteq qout[w].made
    /\ "fallback" \notin qout[w].made
    /\ qout[w].top_docs # << >>
    /\ qout[w].top_docs[1].row # RepoRows(store, qout[w].repo_url)[1]

\* C19 (as claimed): for a question that names a file, every stored row of
\* the repository whose file_path contains the filename is among the
\* returned documents.
C19_WholeFileReturned ==
  \A w \in Procs :
    (qout[w].status = "ok" /\ qout[w].stage = "file")
      => \A k \in 1..Len(store) :
           (/\ store[k].repo_url = qout[w].repo_url
            /\ ILikeContains(FilePathStr(store[k]), qout[w].target))
             => \E j \in 1..Len(qout[w].top_docs) :
                  qout[w].top_docs[j].row = store[k]

\* C20 (as claimed): the documents of the file lookup that belong to one
\* file come in ascending chunk index.
C20_ChunksInOrder ==
  \A w \in Procs :
    (qout[w].status = "ok" /\ qout[w].stage = "file")
      => \A j, k \in 1..Len(qout[w].top_docs) :
           (j < k /\ qout[w].top_docs[j].row.path = qout[w].top_docs[k].row.path)
             => qout[w].top_docs[j].row.chunk <= qout[w].top_docs[k].row.chunk

\* C21 (as claimed): the store holds at most one __FILE_LIST__ row per
\* repo_url.
C21_OneListingPerRepo ==
  \A repo_url \in Repos :
    Len(SelectSeq(store, LAMBDA r : r.repo_url = repo_url /\ r.path = FILE_LIST)) <= 1

\* an ingestion run that has fetched, with the records it builds
Fetched(w) == req[w].kind = "ingest" /\ req[w].content # 0

RunRecords(w) == AllRecords(req[w].repo_url, req[w].content, ingest_pipeline[w])

\* the rows the run of process w has inserted so far
RunRows(w) == SubSeq(store, Len(store) - req[w].total_inserted + 1, Len(store))

\* C22: with a non-empty all_file_paths the listing record is the first
\* record of the run, and so the first row the run writes; it has file_path
\* __FILE_LIST__, file_type metadata, total_files the number of paths, and
\* file_paths the first 100 paths at most.  With an empty all_file_paths the
\* run builds no listing record.
C22_ListingFirst ==
  \A w \in Procs :
    Fetched(w)
      => LET paths == Contents[req[w].content].all_file_paths
             records == RunRecords(w)
             meta == ListingMetadata(req[w].content)
         IN IF paths # << >>
            THEN /\ records[1].path = FILE_LIST
                 /\ records[1].file_type = "metadata"
                 /\ records[1].total_files = Len(paths)
                 /\ \A k \in 2..Len(records) : records[k].path # FILE_LIST
                 /\ meta.total_files = Len(paths)
                 /\ Len(meta.file_paths) <= 100
                 /\ Len(meta.file_paths) = Len(paths) \/ Len(meta.file_paths) = 100
                 /\ \A k \in 1..Len(meta.file_paths) : meta.file_paths[k] = paths[k]
                 /\ req[w].total_inserted > 0 => RunRows(w)[1] = records[1]
            ELSE \A k \in 1..Len(records) : records[k].path # FILE_LIST

C22_Witness ==
  \E w \in Procs :
    /\ Fetched(w)
    /\ Len(Contents[req[w].content].all_file_paths) > 100
    /\ Len(ListingMetadata(req[w].content).file_paths) = 100
    /\ req[w].total_inserted > 0
    /\ RunRows(w)[1].path = FILE_LIST

\* C23: the records of a run are as many as its texts; record i carries the
\* file and part of text i with embedding i; the rows the run has inserted
\* are the first total_inserted records in order, in batches of 50 at most,
\* and all of them when the run succeeds.
C23_RecordsZipTexts ==
  \A w \in Procs :
    Fetched(w)
      => LET records == RunRecords(w)
             texts == texts_to_embed(req[w].content)
             embeddings == batch_embed(texts)
         IN /\ Len(records) = Len(texts)
            /\ \A k \in 1..Len(records) :
                 /\ records[k].path = texts[k].path
                 /\ records[k].path # FILE_LIST => records[k].chunk = texts[k].part
                 /\ records[k].embedding = embeddings[k]
            /\ req[w].total_inserted <= Len(records)
            /\ RunRows(w) = SubSeq(records, 1, req[w].total_inserted)
            /\ req[w].pc = "insert"
                 => /\ req[w].total_inserted = req[w].i
                    /\ Len(Batch(records, req[w].i)) \in 1..batch_size
            /\ req[w].status = "success" => req[w].total_inserted = Len(records)

C23_Witness ==
  \E w \in Procs :
    /\ Fetched(w)
    /\ req[w].status = "success"
    /\ req[w].total_inserted > batch_size
    /\ RunRows(w) = RunRecords(w)

\* C24: a run that reaches the insert loop has called the embedder exactly
\* once, on all its texts, before its first insert; a run that has not
\* reached it has called it at most once and inserted nothing.
C24_EmbedOnce ==
  \A w \in Procs :
    req[w].kind = "ingest"
      => /\ req[w].embed_calls <= 1
         /\ (req[w].pc = "insert" \/ req[w].total_inserted > 0 \/ req[w].failed_batch > 0)
              => /\ req[w].embed_calls = 1
                 /\ req[w].embedded = Len(RunRecords(w))
         /\ req[w].embed_calls = 0 => req[w].total_inserted = 0

C24_Witness ==
  \E w \in Procs :
    /\ req[w].kind = "ingest"
    /\ req[w].status = "success"
    /\ req[w].total_inserted > batch_size
    /\ req[w].embed_calls = 1

\* the documents of the content a run has fetched, as a set
RunDocuments(w) ==
  {Contents[req[w].content].documents[k] :
     k \in 1..Len(Contents[req[w].content].documents)}

\* the rows of a repository and owner that belong to one file
FileRows(s, repo_url, user_id, p) ==
  SelectSeq(s, LAMBDA r : r.repo_url = repo_url /\ r.user_id = user_id /\ r.path = p)

\* C25 as stated: in the store, the fragments of every file of a repository
\* and owner have chunk_index exactly 0..total_chunks-1, once each.
C25_StoredChunksExact ==
  \A k \in 1..Len(store) :
    store[k].path # FILE_LIST
      => LET rows == FileRows(store, store[k].repo_url, store[k].user_id, store[k].path)
         IN /\ Len(rows) = store[k].total_chunks
            /\ \A j \in 1..Len(rows) :
                 /\ rows[j].chunk = j - 1
                 /\ rows[j].total_chunks = store[k].total_chunks

\* C25, amended: the fragments a run produces for a file have chunk_index
\* exactly 0..total_chunks-1 in order, all with the same total_chunks; a
\* blank file yields none; a run that succeeds has inserted exactly these.
C25_RunChunksExact ==
  \A w \in Procs :
    Fetched(w)
      => \A doc \in RunDocuments(w) :
           LET recs == SelectSeq(RunRecords(w), LAMBDA r : r.path = doc.path)
               rows == SelectSeq(RunRows(w), LAMBDA r : r.path = doc.path)
           IN /\ doc.blank => recs = << >>
              /\ \A j \in 1..Len(recs) :
                   /\ recs[j].chunk = j - 1
                   /\ recs[j].total_chunks = Len(recs)
                   /\ recs[j].chunk < recs[j].total_chunks
              /\ req[w].status = "success" => rows = recs

C25_Witness ==
  \E w \in Procs :
    /\ Fetched(w)
    /\ req[w].status = "success"
    /\ \E doc \in RunDocuments(w) : doc.blank
    /\ \E doc \in RunDocuments(w) :
         /\ SplitNodes(doc).n > 1
         /\ Len(SelectSeq(RunRows(w), LAMBDA r : r.path = doc.path)) = SplitNodes(doc).n

\* C26: a run whose content holds a file with a language that the code
\* splitter cannot parse still produces that file's fragments with the text
\* splitter, and the fragments of every other non-blank file; its failure,
\* if any, is the embedder's or the store's.
C26_FallbackKeepsRunGoing ==
  \A w \in Procs :
    Fetched(w)
      => \A doc \in RunDocuments(w) :
           (~doc.blank /\ doc.malformed /\ get_language_for_extension(doc.path) # None)
             => /\ SplitNodes(doc).by = "sentence"
                /\ Len(SelectSeq(RunRecords(w), LAMBDA r : r.path = doc.path)) = doc.nodes
                /\ \A other \in RunDocuments(w) :
                     ~other.blank
                       => \E k \in 1..Len(RunRecords(w)) : RunRecords(w)[k].path = other.path
                /\ req[w].status = "success"
                     => Len(SelectSeq(RunRows(w), LAMBDA r : r.path = doc.path)) = doc.nodes

C26_Witness ==
  \E w \in Procs :
    /\ Fetched(w)
    /\ req[w].status = "success"
    /\ \E doc \in RunDocuments(w) :
         /\ doc.malformed /\ get_language_for_extension(doc.path) # None
         /\ Len(SelectSeq(RunRows(w), LAMBDA r : r.path = doc.path)) = doc.nodes
         /\ doc.nodes > 0
         /\ RunRows(w)[Len(RunRows(w))].path # doc.path

\* C27 as stated: the chunking_method recorded on a fragment names the
\* splitter that produced it.
C27_MethodIsSplitterUsed ==
  \A w \in Procs :
    Fetched(w)
      => \A doc \in RunDocuments(w) :
           \A k \in 1..Len(RunRecords(w)) :
             RunRecords(w)[k].path = doc.path
               => RunRecords(w)[k].chunking_method = SplitNodes(doc).by

\* C28 as stated: the path shown for a returned fragment, in the sources
\* and in the context, is the path of the file the fragment was cut from.
C28_StripInvertsSuffix ==
  \A w \in Procs :
    /\ \A k \in 1..Len(qout[w].sources) :
         qout[w].top_docs[k].row.path # FILE_LIST
           => qout[w].sources[k].file_path = PathText(qout[w].top_docs[k].row.path)
    /\ \A k \in 1..Len(qout[w].context) :
         qout[w].context[k].part = "document"
           => qout[w].context[k].file_path
                = PathText(qout[w].top_docs[qout[w].context[k].i].row.path)

\* a stored prefix of a run: some file has fewer rows than its total_chunks
Partial(rows) ==
  \E k \in 1..Len(rows) :
    /\ rows[k].path # FILE_LIST
    /\ Len(SelectSeq(rows, LAMBDA r : r.path = rows[k].path)) < rows[k].total_chunks

\* C29 as stated: an ingest request for a repository whose rows are the
\* prefix a failed run left is answered as already ingested and writes
\* nothing.
C29_PartialStaysUntilDelete ==
  \A w \in Procs :
    (/\ Answered(w)
     /\ req[w].before > 0
     /\ Partial(SubSeq(RepoRows(store, req[w].repo_url), 1, req[w].before)))
      => /\ req[w].status = "info"
         /\ req[w].total_inserted = 0
         /\ Len(RepoRows(store, req[w].repo_url)) = req[w].before

\* C30 as stated: the key a query result reports is a registry key, and the
\* id of that registry entry is the id the generation call selected.
C30_ReportedModelIsUsed ==
  \A w \in Procs :
    (qout[w].status = "ok" /\ "generate" \in qout[w].made)
      => /\ qout[w].model_used \in DOMAIN MODELS
         /\ MODELS[qout[w].model_used] = qout[w].model_sent

====
